---------------------------- MODULE Spec2Model ----------------------------
(***************************************************************************)
(* Model of the client-side text chunking of vidya-ai-app:                 *)
(*   - paginateContent and the re-pagination effect of SubtopicDetailModal *)
(*   - parseAnalysis of AnalysisModal                                      *)
(* A string is a sequence of one-character strings; a regular expression   *)
(* is an operator that is TRUE exactly when the JavaScript pattern matches.*)
(***************************************************************************)
EXTENDS Integers, Sequences, FiniteSets, TLC

VARIABLES
    researchedContent,   \* prop of SubtopicDetailModal: the text to paginate
    contentPages,        \* useState<string[]>([]): one string per page
    currentPageInModal,  \* useState(1)
    effectRan,           \* TRUE once the re-pagination effect has run for researchedContent
    analysisResult,      \* prop of AnalysisModal: the text to parse
    structuredAnalysis,  \* result of parseAnalysis(analysisResult)
    rendered,            \* TRUE once AnalysisModal has rendered analysisResult
    analysisView,        \* what AnalysisModal shows: "none", "sections" or "placeholder"
    route,               \* "learn" while LearningPage is mounted, "settings" after router.push
    geminiApiKey,        \* TRUE when firestoreUser.geminiApiKey is set
    firestoreDocument,   \* the document users/{uid}/documents/{documentId} in Firestore
    libraryDocument,     \* useState<LibraryDocument | null>(null)
    activeTab,           \* useState("documentAnalysis")
    documentSummary,     \* useState<string | null>(null)
    extractedSubtopicsContent,  \* useState<string | null>(null)
    quizQuestions,       \* useState<QuizQuestion[]>([])
    subjectiveQuestions, \* useState<SubjectiveQuestion[]>([])
    isLoading,           \* isDocumentAnalysisLoading, isSubtopicsLoading, isQuizLoading, isQnALoading
    featureError,        \* documentAnalysisError, subtopicsError, quizError, qnaError: TRUE when not null
    currentPageSubtopics,  \* useState(1)
    currentPageQuiz,     \* useState(1)
    currentPageQnA,      \* useState(1)
    selectedAnswers,     \* useState<{[questionId]: optionKey}>({})
    quizSubmitted,       \* useState(false)
    currentQuizScore,    \* useState<number | null>(null): <<>> for null, <<n>> for n
    quizAttempts,        \* number of documents added to the quizAttempts collection
    isConfirmationModalOpen,  \* useState(false)
    confirmationMessage, \* useState("")
    onConfirmAction,     \* useState(null): "null" or the feature whose fetch function is held
    awaitingResponse,    \* per feature, calls of its fetch function suspended at `await fetch`
    awaitingUpdate,      \* per feature, calls suspended at `await updateDoc`, before `finally`
    requestsSent,        \* number of requests sent to the API routes so far
    userDocuments,       \* layout.tsx: useState<LibraryDocument[]>([])
    currentPage,         \* layout.tsx: useState(1)
    selectedFile,        \* layout.tsx: useState<File | null>(null): TRUE when a file is held
    processState,        \* layout.tsx: useState("idle")
    uploadStep,          \* the await at which handleUploadAndAnalyzeClick is suspended
    listedStatus,        \* status of the followed document in userDocuments, "none" if not listed
    isDocumentDescriptionModalOpen,  \* layout.tsx: useState(false)
    userProfile,         \* the document users/{uid} in Firestore: "missing", "noKey" or "key"
    fileType,            \* the fileType of the followed document: "" for an unknown type
    requests,            \* the requests received by the API routes, in order of arrival
    requestLimit         \* the number of requests the learning page gets to send

modalVars == <<researchedContent, contentPages, currentPageInModal, effectRan>>
analysisVars == <<analysisResult, structuredAnalysis, rendered, analysisView>>
sessionVars == <<route, geminiApiKey>>
contentVars == <<documentSummary, extractedSubtopicsContent, quizQuestions, subjectiveQuestions>>
flagVars == <<isLoading, featureError>>
pageIndexVars == <<currentPageSubtopics, currentPageQuiz, currentPageQnA>>
quizVars == <<selectedAnswers, quizSubmitted, currentQuizScore>>
confirmVars == <<isConfirmationModalOpen, confirmationMessage, onConfirmAction>>
requestVars == <<awaitingResponse, awaitingUpdate, requestsSent>>
learnVars ==
    <<sessionVars, firestoreDocument, libraryDocument, activeTab, contentVars, flagVars,
      pageIndexVars, quizVars, quizAttempts, confirmVars, requestVars>>
uploadVars ==
    <<selectedFile, processState, uploadStep, listedStatus, isDocumentDescriptionModalOpen>>
libraryVars == <<userDocuments, currentPage, uploadVars>>
backendVars == <<userProfile, fileType, requests, requestLimit>>

vars == <<modalVars, analysisVars, learnVars, libraryVars, backendVars>>

-----------------------------------------------------------------------------
(* Bounds of the model *)

MaxLines == 31      \* longest input of the page builder, in raw lines
MaxMix == 3         \* longest input that mixes every kind of line freely
MaxALines == 4      \* longest input of the section parser, in raw lines
MaxExtra == 1       \* items of a generated list beyond its first page
MaxRequests == 1    \* requests sent to the API routes
MaxAnalyses == 2    \* analysis requests of the library page for a document
MaxAttempts == 1    \* quiz attempts saved to Firestore

-----------------------------------------------------------------------------
(* Program constants *)

LINES_PER_PAGE == 15
MIN_LINES_PER_PAGE == 10
itemsPerPageSubtopics == 10
itemsPerPageQuiz == 10
itemsPerPageQnA == 5
itemsPerPage == 10

-----------------------------------------------------------------------------
(* Strings *)

NL == "\n"

\* JavaScript white space (\s, String.prototype.trim) within the model's alphabet
IsSpace(c) == c \in {" ", "\t", "\r", NL}

\* line terminators, which the regular expression '.' does not match
IsLineTerminator(c) == c \in {NL, "\r"}

IsDigit(c) == c \in {"0", "1", "2", "3", "4", "5", "6", "7", "8", "9"}

UpperCase == <<"A", "B", "C", "D", "E", "F", "G", "H", "I", "J", "K", "L", "M",
               "N", "O", "P", "Q", "R", "S", "T", "U", "V", "W", "X", "Y", "Z">>
LowerCase == <<"a", "b", "c", "d", "e", "f", "g", "h", "i", "j", "k", "l", "m",
               "n", "o", "p", "q", "r", "s", "t", "u", "v", "w", "x", "y", "z">>

\* case folding of the /i flag
ToLower(c) ==
    IF \E k \in 1..26 : UpperCase[k] = c
    THEN LowerCase[CHOOSE k \in 1..26 : UpperCase[k] = c]
    ELSE c

LowerStr(s) == [k \in 1..Len(s) |-> ToLower(s[k])]

AllIn(s, from, to, P(_)) == \A k \in from..to : P(s[k])

IsHash(c) == c = "#"
IsStar(c) == c = "*"
NotStar(c) == c # "*"
NotTerminator(c) == ~IsLineTerminator(c)

\* String.prototype.trim
Trim(s) ==
    IF \A k \in 1..Len(s) : IsSpace(s[k]) THEN <<>>
    ELSE LET first == CHOOSE i \in 1..Len(s) :
                          ~IsSpace(s[i]) /\ \A k \in 1..(i - 1) : IsSpace(s[k])
             last == CHOOSE j \in 1..Len(s) :
                          ~IsSpace(s[j]) /\ \A k \in (j + 1)..Len(s) : IsSpace(s[k])
         IN SubSeq(s, first, last)

\* the positions of the separators in s, ascending
SeparatorPositions(s) ==
    SelectSeq([k \in 1..Len(s) |-> k], LAMBDA k : s[k] = NL)

\* the position of the j-th separator of s; 0 before the first and
\* Len(s) + 1 after the last
SeparatorAt(s, seps, j) ==
    IF j = 0 THEN 0
    ELSE IF j > Len(seps) THEN Len(s) + 1
    ELSE seps[j]

\* String.prototype.split("\n"): always at least one piece
Split(s) ==
    LET seps == SeparatorPositions(s)
    IN [i \in 1..(Len(seps) + 1) |->
           SubSeq(s, SeparatorAt(s, seps, i - 1) + 1, SeparatorAt(s, seps, i) - 1)]

\* Array.prototype.join("\n")
RECURSIVE Join(_)
Join(ls) ==
    IF Len(ls) = 0 THEN <<>>
    ELSE IF Len(ls) = 1 THEN ls[1]
    ELSE LET half == Len(ls) \div 2
         IN Join(SubSeq(ls, 1, half)) \o <<NL>> \o Join(SubSeq(ls, half + 1, Len(ls)))

\* (line) => line.trim() !== ""
TrimsToText(line) == Trim(line) # <<>>

\* .filter((line) => line.trim() !== "")
FilterNonBlank(ls) == SelectSeq(ls, TrimsToText)

\* content.split("\n").filter((line) => line.trim() !== "")
NonBlankLines(content) == FilterNonBlank(Split(content))


-----------------------------------------------------------------------------
(* SubtopicDetailModal.paginateContent *)

\* /^(#+)\s*(.+)$/
MatchesHashHeading(line) ==
    \E i \in 1..Len(line) : \E j \in i..(Len(line) - 1) :
        /\ AllIn(line, 1, i, IsHash)
        /\ AllIn(line, i + 1, j, IsSpace)
        /\ AllIn(line, j + 1, Len(line), NotTerminator)

\* group 1 of the list pattern ends at m: \s*[-*] or \s*\d+\.
ListMarkerEndsAt(line, m) ==
    \/ /\ line[m] \in {"-", "*"}
       /\ AllIn(line, 1, m - 1, IsSpace)
    \/ /\ line[m] = "."
       /\ \E d \in 1..(m - 1) :
              /\ AllIn(line, 1, d - 1, IsSpace)
              /\ AllIn(line, d, m - 1, IsDigit)

\* /^(\s*[-*]|\s*\d+\.)\s*(.+)$/
MatchesListItem(line) ==
    \E m \in 1..(Len(line) - 1) : \E j \in m..(Len(line) - 1) :
        /\ ListMarkerEndsAt(line, m)
        /\ AllIn(line, m + 1, j, IsSpace)
        /\ AllIn(line, j + 1, Len(line), NotTerminator)

\* /^\*\*([^*]+)\*\*:/
MatchesBoldColon(line) ==
    \E e \in 3..(Len(line) - 3) :
        /\ line[1] = "*" /\ line[2] = "*"
        /\ AllIn(line, 3, e, NotStar)
        /\ line[e + 1] = "*" /\ line[e + 2] = "*" /\ line[e + 3] = ":"

\* const isHeading = ... || ... || ...
isHeading(line) ==
    \/ MatchesHashHeading(line)
    \/ MatchesListItem(line)
    \/ MatchesBoldColon(line)

\* variants of BreaksBefore: the minimum off by one, the minimum dropped,
\* and the heading test dropped
BreaksBeforeOffByOne(line, currentPageLines) ==
    /\ isHeading(line)
    /\ Len(currentPageLines) >= MIN_LINES_PER_PAGE - 1
    /\ Len(currentPageLines) <= LINES_PER_PAGE

BreaksBeforeNoMinimum(line, currentPageLines) ==
    /\ isHeading(line)
    /\ Len(currentPageLines) <= LINES_PER_PAGE

BreaksBeforeAnyLine(line, currentPageLines) ==
    /\ Len(currentPageLines) >= MIN_LINES_PER_PAGE
    /\ Len(currentPageLines) <= LINES_PER_PAGE

\* the test that starts a new page before the line is appended
BreaksBefore(line, currentPageLines) ==
    /\ isHeading(line)
    /\ Len(currentPageLines) >= MIN_LINES_PER_PAGE
    /\ Len(currentPageLines) <= LINES_PER_PAGE

\* variants of PageComplete: > for >=, and the minimum for the maximum
PageCompleteStrict(currentPageLines, index, n) ==
    \/ Len(currentPageLines) > LINES_PER_PAGE
    \/ index = n - 1

PageCompleteAtMinimum(currentPageLines, index, n) ==
    \/ Len(currentPageLines) >= MIN_LINES_PER_PAGE
    \/ index = n - 1

\* the test that closes the page after the line is appended
PageComplete(currentPageLines, index, n) ==
    \/ Len(currentPageLines) >= LINES_PER_PAGE
    \/ index = n - 1

\* pages.push(currentPageLines.join("\n")); currentPageLines = []
Flush(st) == [pages |-> Append(st.pages, Join(st.cur)), cur |-> <<>>]

FlushBeforeHeading(st, line) ==
    IF BreaksBefore(line, st.cur) THEN Flush(st) ELSE st

\* variant of FlushAfterAppend: the buffer is kept after the flush of the last line
FlushAfterAppendKeepsTail(st, index, n) ==
    IF PageComplete(st.cur, index, n)
    THEN [pages |-> Append(st.pages, Join(st.cur)),
          cur |-> IF index = n - 1 THEN st.cur ELSE <<>>]
    ELSE st

FlushAfterAppend(st, index, n) ==
    IF PageComplete(st.cur, index, n) THEN Flush(st) ELSE st

\* one call of the forEach callback; index is zero-based
ForEachLine(st, line, index, n) ==
    LET before == FlushBeforeHeading(st, line)
        pushed == [before EXCEPT !.cur = Append(before.cur, line)]
    IN FlushAfterAppend(pushed, index, n)

\* TRUE; makes TLC evaluate v at this point, so that the state after a line
\* is computed before the next line is looked at, as in the loop
Evaluated(v) == v = v

RECURSIVE ForEachFrom(_, _, _)
ForEachFrom(st, lines, index) ==
    IF index >= Len(lines) THEN st
    ELSE LET next == ForEachLine(st, lines[index + 1], index, Len(lines))
         IN IF Evaluated(next) THEN ForEachFrom(next, lines, index + 1) ELSE st

\* variant of FinalFlush: the buffer is pushed even when it is empty
FinalFlushAlways(st) == Append(st.pages, Join(st.cur))

\* if (currentPageLines.length > 0) pages.push(...)
FinalFlush(st) ==
    IF Len(st.cur) > 0 THEN Append(st.pages, Join(st.cur)) ELSE st.pages

paginateContent(content) ==
    FinalFlush(ForEachFrom([pages |-> <<>>, cur |-> <<>>], NonBlankLines(content), 0))

-----------------------------------------------------------------------------
(* Input texts of the page builder *)

DigitChar == <<"0", "1", "2", "3", "4", "5", "6", "7", "8", "9">>

Digits(i) ==
    IF i < 10 THEN <<DigitChar[i + 1]>>
    ELSE <<DigitChar[(i \div 10) + 1], DigitChar[(i % 10) + 1]>>

PlainLine(i) == <<"L">> \o Digits(i)

LineKinds == {"hash", "bullet", "numbered", "boldcolon", "bold", "blank", "empty"}

KindLine(k) ==
    CASE k = "hash"      -> <<"#", " ", "H">>
      [] k = "bullet"    -> <<"-", " ", "b">>
      [] k = "numbered"  -> <<"1", ".", " ", "n">>
      [] k = "boldcolon" -> <<"*", "*", "B", "*", "*", ":">>
      [] k = "bold"      -> <<"*", "*", "B", "*", "*">>
      [] k = "blank"     -> <<" ", "\t">>
      [] k = "empty"     -> <<>>

\* distance between two lines of the chosen kind; MaxLines + 1 gives a single one
Periods == {1, 10, 11, 15, 16, MaxLines + 1}

\* n raw lines, plain except for lines of kind k at s, s + d, s + 2d, ...
PeriodicText(n, k, s, d) ==
    Join([i \in 1..n |-> IF i >= s /\ (i - s) % d = 0 THEN KindLine(k) ELSE PlainLine(i)])

PeriodicTexts ==
    {PeriodicText(n, k, s, d) : n \in 0..MaxLines, k \in LineKinds,
                                 s \in 1..(MaxLines + 1), d \in Periods}

MixKinds == LineKinds \cup {"plain"}

MixLine(k, i) == IF k = "plain" THEN PlainLine(i) ELSE KindLine(k)

MixedTexts ==
    UNION {{Join([i \in 1..n |-> MixLine(f[i], i)]) : f \in [1..n -> MixKinds]} : n \in 0..MaxMix}

\* the single line "**Important**:"
ImportantLine == <<"*", "*", "I", "m", "p", "o", "r", "t", "a", "n", "t", "*", "*", ":">>

ImportantText == Join(<<ImportantLine>>)

ContentInputs == PeriodicTexts \cup MixedTexts \cup {ImportantText}

-----------------------------------------------------------------------------
(* SubtopicDetailModal: state and handlers *)

\* variant of RepaginateEffect: the current page is not reset
RepaginateEffectKeepsPage ==
    /\ ~effectRan
    /\ contentPages' = IF researchedContent # <<>>
                       THEN paginateContent(researchedContent)
                       ELSE <<>>
    /\ currentPageInModal' = currentPageInModal
    /\ effectRan' = TRUE
    /\ UNCHANGED <<researchedContent, analysisVars, learnVars, libraryVars, backendVars>>

\* useEffect(() => {...}, [researchedContent, paginateContent])
RepaginateEffect ==
    /\ ~effectRan
    /\ contentPages' = IF researchedContent # <<>>
                       THEN paginateContent(researchedContent)
                       ELSE <<>>
    /\ currentPageInModal' = 1
    /\ effectRan' = TRUE
    /\ UNCHANGED <<researchedContent, analysisVars, learnVars, libraryVars, backendVars>>

totalPages == Len(contentPages)

Min(a, b) == IF a <= b THEN a ELSE b
Max(a, b) == IF a >= b THEN a ELSE b

\* Math.ceil(a / b) for a >= 0 and b > 0
CeilDiv(a, b) == (a + b - 1) \div b

\* variant of PaginationControlsShown: the controls are always rendered
PaginationControlsAlwaysShown == totalPages >= 0

\* {totalPages > 1 && (...)}: the pagination controls are rendered
PaginationControlsShown == totalPages > 1

\* disabled={currentPageInModal === totalPages}
NextButtonEnabled == PaginationControlsShown /\ currentPageInModal # totalPages

\* disabled={currentPageInModal === 1}
PreviousButtonEnabled == PaginationControlsShown /\ currentPageInModal # 1

\* a click on Next: passive effects are flushed before a click is handled
handleNextPage ==
    /\ effectRan
    /\ NextButtonEnabled
    /\ currentPageInModal' = Min(currentPageInModal + 1, totalPages)
    /\ UNCHANGED <<researchedContent, contentPages, effectRan, analysisVars, learnVars, libraryVars, backendVars>>

handlePreviousPage ==
    /\ effectRan
    /\ PreviousButtonEnabled
    /\ currentPageInModal' = Max(currentPageInModal - 1, 1)
    /\ UNCHANGED <<researchedContent, contentPages, effectRan, analysisVars, learnVars, libraryVars, backendVars>>

\* the lines the renderer shows for a page: currentContent.split("\n")
PageLines(page) == Split(page)

-----------------------------------------------------------------------------
(* LearningPage and the library list of the layout: state after construction *)

Features == {"documentAnalysis", "extractedSubtopics", "generateQuiz", "subjectiveQnA"}

Tabs == Features \cup {"aiTutor"}

\* null and the empty string are both falsy; both are the empty sequence here
Null == <<>>

\* libraryDocument before the first snapshot
NullDocument ==
    [analysisResult |-> Null, analysisError |-> Null, extractedSubtopics |-> Null,
     quizQuestions |-> Null, subjectiveQuestions |-> Null, status |-> "null"]

\* a document for which nothing has been generated yet
EmptyDocument(status) ==
    [analysisResult |-> Null, analysisError |-> Null, extractedSubtopics |-> Null,
     quizQuestions |-> Null, subjectiveQuestions |-> Null, status |-> status]

\* the useState initial values of LearningPage (lines 100-171)
LearningPageMounted ==
    /\ route = "learn"
    /\ libraryDocument = NullDocument
    /\ activeTab = "documentAnalysis"
    /\ documentSummary = Null
    /\ extractedSubtopicsContent = Null
    /\ quizQuestions = <<>>
    /\ subjectiveQuestions = <<>>
    /\ isLoading = [f \in Features |-> FALSE]
    /\ featureError = [f \in Features |-> FALSE]
    /\ currentPageSubtopics = 1
    /\ currentPageQuiz = 1
    /\ currentPageQnA = 1
    /\ selectedAnswers = <<>>
    /\ quizSubmitted = FALSE
    /\ currentQuizScore = Null
    /\ quizAttempts = 0
    /\ isConfirmationModalOpen = FALSE
    /\ confirmationMessage = ""
    /\ onConfirmAction = "null"
    /\ awaitingResponse = [f \in Features |-> 0]
    /\ awaitingUpdate = [f \in Features |-> 0]
    /\ requestsSent = 0

\* LearningPage not in use
LearnIdle ==
    /\ LearningPageMounted
    /\ geminiApiKey = FALSE
    /\ firestoreDocument = EmptyDocument("uploaded")

\* the useState initial values of the library list (layout.tsx lines 164-165)
LibraryIdle ==
    /\ userDocuments = <<>>
    /\ currentPage = 1
    /\ selectedFile = FALSE
    /\ processState = "idle"
    /\ uploadStep = "none"
    /\ listedStatus = "none"
    /\ isDocumentDescriptionModalOpen = FALSE

\* no request has reached the API routes; the learning page gets to send
\* MaxRequests requests
BackendIdle ==
    /\ userProfile = "key"
    /\ fileType = "text/plain"
    /\ requests = <<>>
    /\ requestLimit = MaxRequests

\* AnalysisModal not in use
AnalysisIdle ==
    /\ analysisResult = <<>>
    /\ structuredAnalysis = <<>>
    /\ rendered = FALSE
    /\ analysisView = "none"

\* SubtopicDetailModal not in use
ModalIdle ==
    /\ researchedContent = <<>>
    /\ contentPages = <<>>
    /\ currentPageInModal = 1
    /\ effectRan = FALSE

Init ==
    /\ researchedContent \in ContentInputs
    /\ contentPages = <<>>
    /\ currentPageInModal = 1
    /\ effectRan = FALSE
    /\ AnalysisIdle
    /\ LearnIdle
    /\ LibraryIdle
    /\ BackendIdle

Next ==
    \/ RepaginateEffect
    \/ handleNextPage
    \/ handlePreviousPage

Spec == Init /\ [][Next]_vars

\* const currentContent = contentPages[currentPageInModal - 1] || ""
currentContent ==
    IF currentPageInModal \in 1..Len(contentPages)
    THEN contentPages[currentPageInModal]
    ELSE <<>>

\* /^\*\*([^*]+)\*\*$/
MatchesBoldLine(line) ==
    /\ Len(line) >= 5
    /\ line[1] = "*" /\ line[2] = "*"
    /\ AllIn(line, 3, Len(line) - 2, NotStar)
    /\ line[Len(line) - 1] = "*" /\ line[Len(line)] = "*"

\* the element the renderer returns for a line of the current page
RenderClass(line) ==
    IF MatchesBoldLine(line) THEN "bold"
    ELSE IF MatchesListItem(line) THEN "bullet"
    ELSE "plain"

\* the researchedContent prop changes; the effect is then pending
ReceiveContent(c) ==
    /\ effectRan
    /\ c # researchedContent
    /\ researchedContent' = c
    /\ effectRan' = FALSE
    /\ UNCHANGED <<contentPages, currentPageInModal, analysisVars, learnVars, libraryVars, backendVars>>

\* texts of 0 to 3 pages that the parent passes one after the other
ModalContents ==
    {PeriodicText(n, k, MIN_LINES_PER_PAGE + 1, MaxLines + 1) :
        n \in 0..MaxLines, k \in {"hash", "blank"}}

InitModal ==
    /\ researchedContent \in ModalContents
    /\ contentPages = <<>>
    /\ currentPageInModal = 1
    /\ effectRan = FALSE
    /\ AnalysisIdle
    /\ LearnIdle
    /\ LibraryIdle
    /\ BackendIdle

NextModal ==
    \/ \E c \in ModalContents : ReceiveContent(c)
    \/ RepaginateEffect
    \/ handleNextPage
    \/ handlePreviousPage

SpecModal == InitModal /\ [][NextModal]_vars


-----------------------------------------------------------------------------
(* Properties of the page builder *)

HasText(line) == \E k \in 1..Len(line) : ~IsSpace(line[k])

\* the non-blank lines of the input, in order
InputLines == SelectSeq(Split(researchedContent), HasText)

NumLines(page) == Len(PageLines(page))

RECURSIVE ConcatPages(_)
ConcatPages(pages) ==
    IF Len(pages) = 0 THEN <<>>
    ELSE PageLines(pages[1]) \o ConcatPages(Tail(pages))

NoHeadingInInput == \A i \in 1..Len(InputLines) : ~isHeading(InputLines[i])


\* the Line Classifier of the specification, rules tried in order
ClassHeading(line) ==
    \/ \E i \in 1..Len(line) : \E j \in (i + 1)..(Len(line) - 1) :
           /\ AllIn(line, 1, i, IsHash)
           /\ AllIn(line, i + 1, j, IsSpace)
           /\ HasText(SubSeq(line, j + 1, Len(line)))
    \/ \E m \in 2..Len(line) :
           /\ line[m] = "."
           /\ \/ AllIn(line, 1, m - 1, IsDigit)
              \/ \A k \in 1..(m - 1) : line[k] \in {"I", "V", "X"}
    \/ /\ MatchesBoldColon(line)
       /\ line[Len(line)] = ":"

ClassBulletOrNumbered(line) ==
    /\ ~ClassHeading(line)
    /\ Len(line) >= 3
    /\ line[1] \in {"-", "*"}
    /\ IsSpace(line[2])
    /\ HasText(SubSeq(line, 3, Len(line)))

ClassBoldEmphasis(line) ==
    /\ ~ClassHeading(line)
    /\ Len(line) >= 5
    /\ line[1] = "*" /\ line[2] = "*"
    /\ line[Len(line)] = "*" /\ line[Len(line) - 1] = "*"
    /\ AllIn(line, 3, Len(line) - 2, NotStar)

ClassPlain(line) ==
    ~ClassHeading(line) /\ ~ClassBulletOrNumbered(line) /\ ~ClassBoldEmphasis(line)

FirstLine(page) == PageLines(page)[1]

\* C1: the lines of the returned pages, concatenated in page order, are exactly
\* the non-blank lines of the input in their original order: nothing is lost,
\* reordered or pushed a second time after the flush of the last line.
C1_RoundTrip ==
    effectRan => ConcatPages(contentPages) = InputLines

\* a multi-page input whose last page was flushed by the last-line test
C1_Witness ==
    /\ effectRan
    /\ Len(contentPages) >= 2
    /\ Len(InputLines) > LINES_PER_PAGE
    /\ Len(InputLines) % LINES_PER_PAGE # 0
    /\ ConcatPages(contentPages) = InputLines

\* C2: every page but the last holds at least MIN_LINES_PER_PAGE and at most
\* LINES_PER_PAGE lines, wherever the heading-style lines are.
C2_PageSizeWindow ==
    effectRan =>
        \A k \in 1..(Len(contentPages) - 1) :
            /\ NumLines(contentPages[k]) >= MIN_LINES_PER_PAGE
            /\ NumLines(contentPages[k]) <= LINES_PER_PAGE

\* a heading arrives with exactly MIN_LINES_PER_PAGE lines buffered, and another
\* right after a page was closed at LINES_PER_PAGE
C2_Witness ==
    /\ effectRan
    /\ Len(contentPages) >= 3
    /\ \E k \in 1..(Len(contentPages) - 1) :
           /\ NumLines(contentPages[k]) = MIN_LINES_PER_PAGE
           /\ isHeading(FirstLine(contentPages[k + 1]))
    /\ \E k \in 1..(Len(contentPages) - 1) :
           /\ NumLines(contentPages[k]) = LINES_PER_PAGE
           /\ isHeading(FirstLine(contentPages[k + 1]))

\* C3: no page holds more than LINES_PER_PAGE lines.
C3_NoPageOverMax ==
    effectRan =>
        \A k \in 1..Len(contentPages) : NumLines(contentPages[k]) <= LINES_PER_PAGE

\* the last page is full as well
C3_Witness ==
    /\ effectRan
    /\ Len(contentPages) >= 2
    /\ NumLines(contentPages[Len(contentPages)]) = LINES_PER_PAGE

C5_PagesIffText ==
    effectRan =>
        /\ (Len(contentPages) = 0) <=> (Len(InputLines) = 0)
        /\ \A k \in 1..Len(contentPages) :
               contentPages[k] # <<>> /\ HasText(contentPages[k])

\* a text of blank lines only gives no page
C5_Witness ==
    /\ effectRan
    /\ Len(researchedContent) >= 3
    /\ Len(InputLines) = 0
    /\ contentPages = <<>>

C7_ShortInputOnePage ==
    (effectRan /\ Len(InputLines) < MIN_LINES_PER_PAGE) =>
        /\ Len(contentPages) = 1
        /\ PageLines(contentPages[1]) = InputLines

\* C7 amended: at least one and fewer than MIN_LINES_PER_PAGE non-blank lines
\* give exactly one page that holds all of them, whatever kinds of line they are.
C7_ShortNonEmptyInputOnePage ==
    (effectRan /\ Len(InputLines) >= 1 /\ Len(InputLines) < MIN_LINES_PER_PAGE) =>
        /\ Len(contentPages) = 1
        /\ PageLines(contentPages[1]) = InputLines

\* a short input that mixes a heading, a bullet and a plain line
C7_Witness ==
    /\ effectRan
    /\ Len(InputLines) \in 3..(MIN_LINES_PER_PAGE - 1)
    /\ \E i, j, k \in 1..Len(InputLines) :
           /\ MatchesHashHeading(InputLines[i])
           /\ ClassBulletOrNumbered(InputLines[j])
           /\ ClassPlain(InputLines[k])
    /\ Len(contentPages) = 1

-----------------------------------------------------------------------------
(* AnalysisModal.parseAnalysis *)

Keywords ==
    { <<"s", "u", "m", "m", "a", "r", "y">>,
      <<"k", "e", "y", " ", "t", "o", "p", "i", "c", "s">>,
      <<"q", "u", "e", "s", "t", "i", "o", "n", "s">>,
      <<"o", "v", "e", "r", "v", "i", "e", "w">> }

\* /^(summary|key topics|questions|overview):?\s*$/i
MatchesKeywordHeading(line) ==
    \E kw \in Keywords :
        /\ Len(line) >= Len(kw)
        /\ LowerStr(SubSeq(line, 1, Len(kw))) = kw
        /\ \/ AllIn(line, Len(kw) + 1, Len(line), IsSpace)
           \/ /\ Len(line) > Len(kw)
              /\ line[Len(kw) + 1] = ":"
              /\ AllIn(line, Len(kw) + 2, Len(line), IsSpace)

\* /^\d+\.\s/i
MatchesNumberedStart(line) ==
    \E m \in 2..(Len(line) - 1) :
        /\ AllIn(line, 1, m - 1, IsDigit)
        /\ line[m] = "."
        /\ IsSpace(line[m + 1])

\* /^- \s/i
MatchesBulletStart(line) ==
    /\ Len(line) >= 3
    /\ line[1] = "-"
    /\ line[2] = " "
    /\ IsSpace(line[3])

\* variant of IsSectionHeading: hash headings open a section too
IsSectionHeadingOrHash(line) ==
    \/ MatchesKeywordHeading(line)
    \/ MatchesNumberedStart(line)
    \/ MatchesBulletStart(line)
    \/ MatchesHashHeading(line)

\* the condition of the if in the forEach callback
IsSectionHeading(line) ==
    \/ MatchesKeywordHeading(line)
    \/ MatchesNumberedStart(line)
    \/ MatchesBulletStart(line)

\* String.prototype.replace(":", ""): the first occurrence only
RemoveFirstColon(s) ==
    IF \E k \in 1..Len(s) : s[k] = ":"
    THEN LET c == CHOOSE k \in 1..Len(s) : s[k] = ":" /\ \A h \in 1..(k - 1) : s[h] # ":"
         IN SubSeq(s, 1, c - 1) \o SubSeq(s, c + 1, Len(s))
    ELSE s

\* line.replace(":", "").trim()
SectionTitle(line) == Trim(RemoveFirstColon(line))

\* sections.push({title: currentSectionTitle, content: currentSectionContent})
\* when a section is open
PushOpenSection(st) ==
    IF st.open
    THEN Append(st.sections, [title |-> st.title, content |-> st.content])
    ELSE st.sections

\* one call of the forEach callback; open = FALSE stands for a null title
ParseLine(st, line) ==
    IF IsSectionHeading(line)
    THEN [sections |-> PushOpenSection(st), open |-> TRUE,
          title |-> SectionTitle(line), content |-> <<>>]
    ELSE [st EXCEPT !.content = Append(st.content, line)]

RECURSIVE ParseFrom(_, _, _)
ParseFrom(st, lines, k) ==
    IF k > Len(lines) THEN st
    ELSE ParseFrom(ParseLine(st, lines[k]), lines, k + 1)

FallbackTitle == <<"A", "n", "a", "l", "y", "s", "i", "s">>

\* variant of CloseSections: the fallback section needs a second line
CloseSectionsFallbackOverOne(st, lines) ==
    IF st.open THEN PushOpenSection(st)
    ELSE IF Len(lines) > 1
    THEN Append(st.sections, [title |-> FallbackTitle, content |-> lines])
    ELSE st.sections

\* the if / else if after the loop
CloseSections(st, lines) ==
    IF st.open THEN PushOpenSection(st)
    ELSE IF Len(lines) > 0
    THEN Append(st.sections, [title |-> FallbackTitle, content |-> lines])
    ELSE st.sections

parseAnalysis(text) ==
    LET lines == NonBlankLines(text)
    IN CloseSections(ParseFrom([sections |-> <<>>, open |-> FALSE,
                                title |-> <<>>, content |-> <<>>], lines, 1),
                     lines)

-----------------------------------------------------------------------------
(* Input texts of the section parser *)

AnalysisLineKinds ==
    {"keywordColon", "keyword", "numbered", "dashTwoSpaces", "dashBullet",
     "plain", "plainColon", "blank"}

AnalysisLine(k) ==
    CASE k = "keywordColon"  -> <<"S", "u", "m", "m", "a", "r", "y", ":">>
      [] k = "keyword"       -> <<"k", "e", "y", " ", "t", "o", "p", "i", "c", "s", " ">>
      [] k = "numbered"      -> <<"1", ".", " ", "N", ":">>
      [] k = "dashTwoSpaces" -> <<"-", " ", " ", "d">>
      [] k = "dashBullet"    -> <<"-", " ", "b">>
      [] k = "plain"         -> <<"x">>
      [] k = "plainColon"    -> <<"O", "v", "e", "r", "v", "i", "e", "w", ":", " ", "y">>
      [] k = "blank"         -> <<" ">>

MixedAnalysisTexts ==
    UNION {{Join([i \in 1..n |-> AnalysisLine(f[i])]) : f \in [1..n -> AnalysisLineKinds]} :
           n \in 0..MaxALines}

ScenarioLines ==
    << <<"#", "#", " ", "I", "n", "t", "r", "o">>,
       <<"L", "i", "n", "e", "1">>,
       <<"L", "i", "n", "e", "2">>,
       <<"#", "#", " ", "T", "o", "p", "i", "c", " ", "A">>,
       <<"L", "i", "n", "e", "3">> >>

\* "## Intro\nLine1\nLine2\n## Topic A\nLine3"
ScenarioText == Join(ScenarioLines)

AnalysisInputs == MixedAnalysisTexts \cup {ScenarioText}

-----------------------------------------------------------------------------
(* AnalysisModal: state and render *)

\* const structuredAnalysis = parseAnalysis(analysisResult), with isOpen
\* variant of AnalysisViewOf: section blocks need a second section
AnalysisViewOfOverOne(sections) ==
    IF Len(sections) > 1 THEN "sections" ELSE "placeholder"

\* {structuredAnalysis.length > 0 ? (section blocks) : (placeholder)}
AnalysisViewOf(sections) ==
    IF Len(sections) > 0 THEN "sections" ELSE "placeholder"

RenderAnalysisModal ==
    /\ ~rendered
    /\ structuredAnalysis' = parseAnalysis(analysisResult)
    /\ analysisView' = AnalysisViewOf(parseAnalysis(analysisResult))
    /\ rendered' = TRUE
    /\ UNCHANGED <<modalVars, analysisResult, learnVars, libraryVars, backendVars>>

InitAnalysis ==
    /\ ModalIdle
    /\ LearnIdle
    /\ LibraryIdle
    /\ BackendIdle
    /\ analysisResult \in AnalysisInputs
    /\ structuredAnalysis = <<>>
    /\ rendered = FALSE
    /\ analysisView = "none"

NextAnalysis == RenderAnalysisModal

SpecAnalysis == InitAnalysis /\ [][NextAnalysis]_vars

-----------------------------------------------------------------------------
(* Properties of the section parser *)

AnalysisLines == SelectSeq(Split(analysisResult), HasText)

\* heading-style lines as the specification describes them: a keyword heading,
\* a numbered-list start or a bullet start
StartsNumbered(line) ==
    \E m \in 2..(Len(line) - 1) :
        AllIn(line, 1, m - 1, IsDigit) /\ line[m] = "." /\ IsSpace(line[m + 1])

StartsBullet(line) == Len(line) >= 2 /\ line[1] = "-" /\ IsSpace(line[2])

HeadingStyle(line) ==
    MatchesKeywordHeading(line) \/ StartsNumbered(line) \/ StartsBullet(line)

\* the line without its leading number-dot or bullet dash
WithoutMarker(line) ==
    IF StartsBullet(line) THEN SubSeq(line, 2, Len(line))
    ELSE IF StartsNumbered(line)
    THEN LET m == CHOOSE m \in 2..(Len(line) - 1) :
                      AllIn(line, 1, m - 1, IsDigit) /\ line[m] = "."
         IN SubSeq(line, m + 1, Len(line))
    ELSE line

StrippedTitle(line) == Trim(RemoveFirstColon(WithoutMarker(line)))

HeadingStyleLines == SelectSeq(AnalysisLines, HeadingStyle)

\* C8 as stated: the scenario text gives the sections Intro [Line1, Line2] and
\* Topic A [Line3].
C8_ScenarioTwoSections ==
    (rendered /\ analysisResult = ScenarioText) =>
        structuredAnalysis =
            << [title |-> <<"I", "n", "t", "r", "o">>,
                content |-> <<ScenarioLines[2], ScenarioLines[3]>>],
               [title |-> <<"T", "o", "p", "i", "c", " ", "A">>,
                content |-> <<ScenarioLines[5]>>] >>

\* C8 amended: the scenario text has no line that parseAnalysis takes for a
\* heading ('#' marks are not recognised), so it gives exactly one section,
\* titled "Analysis", whose content is the five lines with their marks.
C8_ScenarioOneFallbackSection ==
    (rendered /\ analysisResult = ScenarioText) =>
        structuredAnalysis = << [title |-> FallbackTitle, content |-> ScenarioLines] >>

\* the scenario text has been parsed
C8_Witness ==
    /\ rendered
    /\ analysisResult = ScenarioText
    /\ Len(structuredAnalysis) = 1

\* C9: each heading-style line (keyword heading, numbered-list start, bullet
\* start) opens a section, so the sections are the heading-style lines in
\* order, each titled by its line without number-dot, bullet dash and colon.
C9_OneSectionPerHeadingLine ==
    (rendered /\ Len(HeadingStyleLines) > 0) =>
        /\ Len(structuredAnalysis) = Len(HeadingStyleLines)
        /\ \A k \in 1..Len(structuredAnalysis) :
               structuredAnalysis[k].title = StrippedTitle(HeadingStyleLines[k])

\* C10: with no heading-style line and at least one non-blank line, the result
\* is one section titled "Analysis" holding all non-blank lines in order.
C10_FallbackSection ==
    (/\ rendered
     /\ Len(AnalysisLines) >= 1
     /\ \A k \in 1..Len(AnalysisLines) : ~IsSectionHeading(AnalysisLines[k])) =>
        structuredAnalysis = << [title |-> FallbackTitle, content |-> AnalysisLines] >>

\* a single non-blank line among blank ones falls back to one section
C10_Witness ==
    /\ rendered
    /\ Len(AnalysisLines) = 1
    /\ Len(Split(analysisResult)) > 1
    /\ ~IsSectionHeading(AnalysisLines[1])
    /\ Len(structuredAnalysis) = 1
    /\ structuredAnalysis[1].title = FallbackTitle

-----------------------------------------------------------------------------
(* Properties of AnalysisModal and SubtopicDetailModal *)

\* C11: parseAnalysis returns no section exactly when the input has no
\* non-blank line, and exactly then the modal shows the placeholder instead of
\* section blocks.
C11_PlaceholderIffNoText ==
    rendered =>
        /\ (Len(structuredAnalysis) = 0) <=> (Len(AnalysisLines) = 0)
        /\ (analysisView = "placeholder") <=> (Len(AnalysisLines) = 0)
        /\ (analysisView = "sections") <=> (Len(AnalysisLines) > 0)

\* a text of blank lines only is shown as the placeholder
C11_Witness ==
    /\ rendered
    /\ Len(analysisResult) >= 3
    /\ Len(AnalysisLines) = 0
    /\ analysisView = "placeholder"

\* C12: the line "**Important**:" is a Heading for the page builder and for the
\* renderer alike, not BoldEmphasis and not BulletOrNumbered.
C12_ImportantIsHeading ==
    (effectRan /\ researchedContent = ImportantText) =>
        /\ isHeading(ImportantLine)
        /\ \A k \in 1..Len(PageLines(currentContent)) :
               RenderClass(PageLines(currentContent)[k]) = "heading"

\* C13: the current page stays within 1..totalPages whenever there is a page,
\* and stays 1 when there is none; Next on the last page and Previous on the
\* first cannot move it.
C13_PageIndexInRange ==
    /\ currentPageInModal >= 1
    /\ totalPages >= 1 => currentPageInModal <= totalPages
    /\ totalPages = 0 => currentPageInModal = 1

\* the last of three pages is shown
C13_Witness ==
    /\ effectRan
    /\ totalPages = 3
    /\ currentPageInModal = totalPages

PagesUpToDate == effectRan => contentPages = paginateContent(researchedContent)

\* C14: a change of researchedContent makes the effect run; the effect replaces
\* the pages by paginateContent of the new content and resets the current page
\* to 1 in the same step, so that afterwards the pages are those of the content.
C14_RecomputeOnChange ==
    /\ []PagesUpToDate
    /\ [][researchedContent' # researchedContent => ~effectRan']_vars
    /\ [][(~effectRan /\ effectRan') =>
             /\ contentPages' = paginateContent(researchedContent')
             /\ currentPageInModal' = 1]_vars

\* the content has changed to a one-page text while page 3 of the previous
\* content is shown
C14_Witness ==
    /\ ~effectRan
    /\ currentPageInModal = 3
    /\ Len(contentPages) = 3
    /\ Len(paginateContent(researchedContent)) = 1

RECURSIVE ConcatContent(_)
ConcatContent(sections) ==
    IF Len(sections) = 0 THEN <<>>
    ELSE sections[1].content \o ConcatContent(Tail(sections))

IsNotSectionHeading(line) == ~IsSectionHeading(line)

TriggerLines == SelectSeq(AnalysisLines, IsSectionHeading)

\* C16: no content is lost: the lines that are not heading triggers are the
\* sections' contents in order, also those before the first trigger, and with
\* a trigger present the section titles come from the trigger lines in order.
C16_NoContentLost ==
    rendered =>
        /\ ConcatContent(structuredAnalysis) = SelectSeq(AnalysisLines, IsNotSectionHeading)
        /\ Len(TriggerLines) > 0 =>
               /\ Len(structuredAnalysis) = Len(TriggerLines)
               /\ \A k \in 1..Len(TriggerLines) :
                      structuredAnalysis[k].title = SectionTitle(TriggerLines[k])

-----------------------------------------------------------------------------
(* LearningPage: generated content *)

\* result.analysis: any text
SummaryText == <<"s">>

\* the sizes of a generated list: one item, or a full page and MaxExtra more
ListSizes(perPage) == {1, perPage + MaxExtra}

\* result.subtopics: a white-space line followed by n subtopic lines
SubtopicsText(n) == Join(<<KindLine("blank")>> \o [i \in 1..n |-> PlainLine(i)])

\* q.options: to keep the number of answer sheets small only the first question
\* of a page of the generated quizzes offers a second, wrong option
QuizOptions(i) == IF i % itemsPerPageQuiz = 1 THEN {"A", "B"} ELSE {"A"}

\* result.quizQuestions: an object; an entry is <<key, value>>, in insertion
\* order, the key "question_i" being written i
RawQuiz(n) == [i \in 1..n |-> <<i, [options |-> QuizOptions(i), correct_answer |-> "A"]>>]

\* Object.entries(rawQuizQuestions).map(([key, value]) => ({id: key, ...value}))
ParseQuiz(raw) ==
    [k \in 1..Len(raw) |->
        [id |-> raw[k][1], options |-> raw[k][2].options,
         correct_answer |-> raw[k][2].correct_answer]]

\* result.subjectiveQuestions: the object {questions: [...]}, as its entries
RawQnA(n) == << <<"questions", [i \in 1..n |-> i]>> >>

KeyPositions(raw, key) == {k \in 1..Len(raw) : raw[k][1] = key}

\* JSON.parse(...).questions || []
ParseQnA(raw) ==
    IF KeyPositions(raw, "questions") = {} THEN <<>>
    ELSE raw[CHOOSE k \in KeyPositions(raw, "questions") : TRUE][2]

\* result.error, apiError.message: any text
ErrorText == <<"e">>

\* what the API routes return for a feature; result.response.text() is any
\* text, the empty text included
ApiResults(f) ==
    CASE f = "documentAnalysis"   -> {Null, SummaryText}
      [] f = "extractedSubtopics" ->
            {Null} \cup {SubtopicsText(n) : n \in ListSizes(itemsPerPageSubtopics)}
      [] f = "generateQuiz"       -> {RawQuiz(n) : n \in ListSizes(itemsPerPageQuiz)}
      [] f = "subjectiveQnA"      -> {RawQnA(n) : n \in ListSizes(itemsPerPageQnA)}

\* the value the page keeps for a result. The quiz and the questions are stored
\* with JSON.stringify and read back with JSON.parse, which gives the same
\* entries in the same order: the stored string is written as the object.
Parsed(f, raw) ==
    CASE f = "documentAnalysis"   -> raw
      [] f = "extractedSubtopics" -> raw
      [] f = "generateQuiz"       -> ParseQuiz(raw)
      [] f = "subjectiveQnA"      -> ParseQnA(raw)

\* the field of the Firestore document that holds a feature's result
StoredField(document, f) ==
    CASE f = "documentAnalysis"   -> document.analysisResult
      [] f = "extractedSubtopics" -> document.extractedSubtopics
      [] f = "generateQuiz"       -> document.quizQuestions
      [] f = "subjectiveQnA"      -> document.subjectiveQuestions

\* updateDoc(doc(db, ...), {...}) of the fetch functions after an ok response
WriteResult(document, f, raw) ==
    CASE f = "documentAnalysis"   ->
            [document EXCEPT !.analysisResult = raw, !.analysisError = Null,
                             !.status = "analyzed"]
      [] f = "extractedSubtopics" -> [document EXCEPT !.extractedSubtopics = raw]
      [] f = "generateQuiz"       -> [document EXCEPT !.quizQuestions = raw]
      [] f = "subjectiveQnA"      -> [document EXCEPT !.subjectiveQuestions = raw]

\* updateDoc(doc(db, ...), {...}) of the fetch functions after a response that
\* is not ok, and in their catch blocks
WriteFailure(document, f) ==
    CASE f = "documentAnalysis"   ->
            [document EXCEPT !.analysisResult = Null, !.analysisError = ErrorText,
                             !.status = "failed"]
      [] f = "extractedSubtopics" -> [document EXCEPT !.extractedSubtopics = Null]
      [] f = "generateQuiz"       -> [document EXCEPT !.quizQuestions = Null]
      [] f = "subjectiveQnA"      -> [document EXCEPT !.subjectiveQuestions = Null]

\* the page buttons a list of a generated size can show
PageNumbers(perPage) == 1..CeilDiv(perPage + MaxExtra, perPage)

\* a document for which everything has been generated, two pages of each list
FullDocument ==
    [analysisResult |-> SummaryText,
     analysisError |-> Null,
     extractedSubtopics |-> SubtopicsText(itemsPerPageSubtopics + MaxExtra),
     quizQuestions |-> RawQuiz(itemsPerPageQuiz + MaxExtra),
     subjectiveQuestions |-> RawQnA(itemsPerPageQnA + MaxExtra),
     status |-> "analyzed"]

LearnDocuments == {EmptyDocument("uploaded"), EmptyDocument("analyzed"), FullDocument}

\* analyzed documents with a summary and with or without a stored quiz
QuizDocuments ==
    {[EmptyDocument("analyzed") EXCEPT !.analysisResult = SummaryText, !.quizQuestions = q] :
        q \in {Null} \cup ApiResults("generateQuiz")}

-----------------------------------------------------------------------------
(* LearningPage: derived values of a render *)

ContentOf(f) ==
    CASE f = "documentAnalysis"   -> documentSummary
      [] f = "extractedSubtopics" -> extractedSubtopicsContent
      [] f = "generateQuiz"       -> quizQuestions
      [] f = "subjectiveQnA"      -> subjectiveQuestions

\* !documentSummary, !extractedSubtopicsContent, quizQuestions.length === 0,
\* subjectiveQuestions.length === 0
ContentEmpty(f) == ContentOf(f) = <<>>

\* array.slice(from, to) for 0 <= from
Slice(s, from, to) ==
    IF from >= Len(s) THEN <<>> ELSE SubSeq(s, from + 1, Min(to, Len(s)))

allSubtopicLines ==
    IF extractedSubtopicsContent # Null THEN NonBlankLines(extractedSubtopicsContent) ELSE <<>>

totalSubtopicPages == CeilDiv(Len(allSubtopicLines), itemsPerPageSubtopics)

currentSubtopicItems ==
    Slice(allSubtopicLines, currentPageSubtopics * itemsPerPageSubtopics - itemsPerPageSubtopics,
          currentPageSubtopics * itemsPerPageSubtopics)

totalQuizPages == CeilDiv(Len(quizQuestions), itemsPerPageQuiz)

currentQuizQuestions ==
    Slice(quizQuestions, currentPageQuiz * itemsPerPageQuiz - itemsPerPageQuiz,
          currentPageQuiz * itemsPerPageQuiz)

totalQnAPages == CeilDiv(Len(subjectiveQuestions), itemsPerPageQnA)

currentSubjectiveQuestions ==
    Slice(subjectiveQuestions, currentPageQnA * itemsPerPageQnA - itemsPerPageQnA,
          currentPageQnA * itemsPerPageQnA)

\* quizQuestions.length > 0 &&
\* Object.keys(selectedAnswers).length === currentQuizQuestions.length
isQuizReadyToSubmit ==
    /\ Len(quizQuestions) > 0
    /\ Cardinality(DOMAIN selectedAnswers) = Len(currentQuizQuestions)

\* the main view is returned once the first snapshot has arrived
PageShown == route = "learn" /\ libraryDocument # NullDocument

\* the tab body shows the feature's content: not the spinner, the error or the hint
ContentRendered(f) ==
    /\ activeTab = f
    /\ ~isLoading[f]
    /\ ~featureError[f]
    /\ IF f = "extractedSubtopics" THEN Len(allSubtopicLines) > 0 ELSE ~ContentEmpty(f)

\* a fetch function can still send its request
CanSend == geminiApiKey => requestsSent < requestLimit

\* loadContent finds the active tab without content, loading flag and error
LoadContentApplies ==
    /\ libraryDocument # NullDocument
    /\ activeTab \in Features
    /\ ContentEmpty(activeTab)
    /\ ~isLoading[activeTab]
    /\ ~featureError[activeTab]

\* ... and nothing stored for a document that was analyzed: it calls the API
LoadContentFetches ==
    /\ LoadContentApplies
    /\ StoredField(libraryDocument, activeTab) = Null
    /\ libraryDocument.status = "analyzed"

\* ... and a stored result: it shows the stored result
LoadContentRestores ==
    /\ LoadContentApplies
    /\ StoredField(libraryDocument, activeTab) # Null

\* the effect has something to do for the state of this render
LoadContentPending ==
    /\ route = "learn"
    /\ \/ LoadContentFetches /\ CanSend
       \/ LoadContentRestores

\* a click reaches the page: effects are flushed before a click is handled, and
\* the confirmation modal covers the page while it is open
Clickable == PageShown /\ ~isConfirmationModalOpen /\ ~LoadContentPending

-----------------------------------------------------------------------------
(* LearningPage: handlers *)

outsideLearn == <<modalVars, analysisVars, libraryVars, backendVars>>

SetContent(f, value) ==
    /\ documentSummary' = IF f = "documentAnalysis" THEN value ELSE documentSummary
    /\ extractedSubtopicsContent' =
           IF f = "extractedSubtopics" THEN value ELSE extractedSubtopicsContent
    /\ quizQuestions' = IF f = "generateQuiz" THEN value ELSE quizQuestions
    /\ subjectiveQuestions' = IF f = "subjectiveQnA" THEN value ELSE subjectiveQuestions

\* onSnapshot(docRef, (docSnap) => {...}) for an existing document
docSnapshot ==
    /\ route = "learn"
    /\ libraryDocument # firestoreDocument
    /\ libraryDocument' = firestoreDocument
    /\ documentSummary' = IF firestoreDocument.analysisResult # Null
                          THEN firestoreDocument.analysisResult
                          ELSE documentSummary
    /\ extractedSubtopicsContent' = IF firestoreDocument.extractedSubtopics # Null
                                    THEN firestoreDocument.extractedSubtopics
                                    ELSE extractedSubtopicsContent
    /\ quizQuestions' = IF firestoreDocument.quizQuestions # Null
                        THEN ParseQuiz(firestoreDocument.quizQuestions)
                        ELSE <<>>
    /\ subjectiveQuestions' = IF firestoreDocument.subjectiveQuestions # Null
                              THEN ParseQnA(firestoreDocument.subjectiveQuestions)
                              ELSE <<>>
    /\ UNCHANGED <<sessionVars, firestoreDocument, activeTab, flagVars, pageIndexVars,
                   quizVars, quizAttempts, confirmVars, requestVars, outsideLearn>>

\* fetchDocumentAnalysis, fetchExtractedSubtopics, fetchQuizQuestions and
\* fetchSubjectiveQuestions up to `await fetch(...)`; without an API key
\* checkApiKey sends the user to the settings and the function returns
StartFetch(f) ==
    IF ~geminiApiKey
    THEN /\ route' = "settings"
         /\ UNCHANGED <<contentVars, flagVars, quizVars, awaitingResponse, requestsSent>>
    ELSE /\ route' = route
         /\ isLoading' = [isLoading EXCEPT ![f] = TRUE]
         /\ featureError' = [featureError EXCEPT ![f] = FALSE]
         /\ SetContent(f, <<>>)
         /\ selectedAnswers' = IF f = "generateQuiz" THEN <<>> ELSE selectedAnswers
         /\ quizSubmitted' = IF f = "generateQuiz" THEN FALSE ELSE quizSubmitted
         /\ currentQuizScore' = IF f = "generateQuiz" THEN Null ELSE currentQuizScore
         /\ awaitingResponse' = [awaitingResponse EXCEPT ![f] = @ + 1]
         /\ requestsSent' = requestsSent + 1

\* the response is ok: the result is shown and written to the document
FetchSucceeds(f, raw) ==
    /\ route = "learn"
    /\ awaitingResponse[f] > 0
    /\ SetContent(f, Parsed(f, raw))
    /\ firestoreDocument' = WriteResult(firestoreDocument, f, raw)
    /\ awaitingResponse' = [awaitingResponse EXCEPT ![f] = @ - 1]
    /\ awaitingUpdate' = [awaitingUpdate EXCEPT ![f] = @ + 1]
    /\ UNCHANGED <<sessionVars, libraryDocument, activeTab, flagVars, pageIndexVars,
                   quizVars, quizAttempts, confirmVars, requestsSent, outsideLearn>>

\* the response is not ok, or fetch throws: the error is set and the stored
\* result is removed
FetchFails(f) ==
    /\ route = "learn"
    /\ awaitingResponse[f] > 0
    /\ featureError' = [featureError EXCEPT ![f] = TRUE]
    /\ firestoreDocument' = WriteFailure(firestoreDocument, f)
    /\ awaitingResponse' = [awaitingResponse EXCEPT ![f] = @ - 1]
    /\ awaitingUpdate' = [awaitingUpdate EXCEPT ![f] = @ + 1]
    /\ UNCHANGED <<sessionVars, libraryDocument, activeTab, contentVars, isLoading,
                   pageIndexVars, quizVars, quizAttempts, confirmVars, requestsSent,
                   outsideLearn>>

\* finally { setIs...Loading(false) }
FetchSettles(f) ==
    /\ route = "learn"
    /\ awaitingUpdate[f] > 0
    /\ isLoading' = [isLoading EXCEPT ![f] = FALSE]
    /\ awaitingUpdate' = [awaitingUpdate EXCEPT ![f] = @ - 1]
    /\ UNCHANGED <<sessionVars, firestoreDocument, libraryDocument, activeTab, contentVars,
                   featureError, pageIndexVars, quizVars, quizAttempts, confirmVars,
                   awaitingResponse, requestsSent, outsideLearn>>

\* useEffect(() => {... loadContent() }, [activeTab, libraryDocument, ...])
loadContent ==
    /\ LoadContentPending
    /\ IF LoadContentFetches
       THEN StartFetch(activeTab)
       ELSE /\ SetContent(activeTab, Parsed(activeTab, StoredField(libraryDocument, activeTab)))
            /\ UNCHANGED <<route, flagVars, quizVars, awaitingResponse, requestsSent>>
    /\ UNCHANGED <<geminiApiKey, firestoreDocument, libraryDocument, activeTab, pageIndexVars,
                   quizAttempts, confirmVars, awaitingUpdate, outsideLearn>>

\* the tab buttons above the content, and the AI Tutor button of the sidebar
setActiveTab(tab) ==
    /\ Clickable
    /\ activeTab' = tab
    /\ UNCHANGED <<sessionVars, firestoreDocument, libraryDocument, contentVars, flagVars,
                   pageIndexVars, quizVars, quizAttempts, confirmVars, requestVars,
                   outsideLearn>>

ConfirmationMessageOf(f) ==
    CASE f = "documentAnalysis"   ->
            "Regenerating the Document Analysis will clear any existing summary for this document. Continue?"
      [] f = "extractedSubtopics" ->
            "Regenerating Extracted Subtopics will clear the current subtopic list for this document. Continue?"
      [] f = "generateQuiz"       ->
            "Regenerating the Quiz will clear all current quiz questions for this document. Continue?"
      [] f = "subjectiveQnA"      ->
            "Regenerating Subjective Q&A will clear all current questions for this document. Continue?"

\* handleRegenerate(action, message); the action is the fetch function of f
handleRegenerate(f, message) ==
    /\ isConfirmationModalOpen' = TRUE
    /\ confirmationMessage' = message
    /\ onConfirmAction' = f

\* variant of ClickFeatureButton: the fetch function is called at once
ClickFeatureButtonFetchesAtOnce(f) ==
    /\ Clickable
    /\ CanSend
    /\ StartFetch(f)
    /\ activeTab' = f
    /\ UNCHANGED <<geminiApiKey, firestoreDocument, libraryDocument, pageIndexVars,
                   quizAttempts, confirmVars, awaitingUpdate, outsideLearn>>

\* onClick of a feature button of the sidebar:
\* handleRegenerate(fetch..., "...") and setActiveTab(...)
ClickFeatureButton(f) ==
    /\ Clickable
    /\ handleRegenerate(f, ConfirmationMessageOf(f))
    /\ activeTab' = f
    /\ UNCHANGED <<sessionVars, firestoreDocument, libraryDocument, contentVars, flagVars,
                   pageIndexVars, quizVars, quizAttempts, requestVars, outsideLearn>>

\* Confirm button of the confirmation modal
confirmAction ==
    /\ PageShown
    /\ isConfirmationModalOpen
    /\ ~LoadContentPending
    /\ isConfirmationModalOpen' = FALSE
    /\ IF onConfirmAction # "null"
       THEN /\ CanSend
            /\ StartFetch(onConfirmAction)
       ELSE UNCHANGED <<route, contentVars, flagVars, quizVars, awaitingResponse,
                        requestsSent>>
    /\ UNCHANGED <<geminiApiKey, firestoreDocument, libraryDocument, activeTab, pageIndexVars,
                   quizAttempts, confirmationMessage, onConfirmAction, awaitingUpdate,
                   outsideLearn>>

\* Cancel button of the confirmation modal
cancelConfirmation ==
    /\ PageShown
    /\ isConfirmationModalOpen
    /\ ~LoadContentPending
    /\ isConfirmationModalOpen' = FALSE
    /\ onConfirmAction' = "null"
    /\ UNCHANGED <<sessionVars, firestoreDocument, libraryDocument, activeTab, contentVars,
                   flagVars, pageIndexVars, quizVars, quizAttempts, confirmationMessage,
                   requestVars, outsideLearn>>

\* a page button of the subtopic list: shown when totalSubtopicPages > 1
paginateSubtopics(pageNumber) ==
    /\ Clickable
    /\ ContentRendered("extractedSubtopics")
    /\ totalSubtopicPages > 1
    /\ pageNumber \in 1..totalSubtopicPages
    /\ currentPageSubtopics' = pageNumber
    /\ UNCHANGED <<sessionVars, firestoreDocument, libraryDocument, activeTab, contentVars,
                   flagVars, currentPageQuiz, currentPageQnA, quizVars, quizAttempts,
                   confirmVars, requestVars, outsideLearn>>

\* a page button of the quiz: shown when totalQuizPages > 1
paginateQuiz(pageNumber) ==
    /\ Clickable
    /\ ContentRendered("generateQuiz")
    /\ totalQuizPages > 1
    /\ pageNumber \in 1..totalQuizPages
    /\ currentPageQuiz' = pageNumber
    /\ UNCHANGED <<sessionVars, firestoreDocument, libraryDocument, activeTab, contentVars,
                   flagVars, currentPageSubtopics, currentPageQnA, quizVars, quizAttempts,
                   confirmVars, requestVars, outsideLearn>>

\* a page button of the subjective questions: shown when totalQnAPages > 1
paginateQnA(pageNumber) ==
    /\ Clickable
    /\ ContentRendered("subjectiveQnA")
    /\ totalQnAPages > 1
    /\ pageNumber \in 1..totalQnAPages
    /\ currentPageQnA' = pageNumber
    /\ UNCHANGED <<sessionVars, firestoreDocument, libraryDocument, activeTab, contentVars,
                   flagVars, currentPageSubtopics, currentPageQuiz, quizVars, quizAttempts,
                   confirmVars, requestVars, outsideLearn>>

\* {...prev, [questionId]: optionKey}
WithAnswer(answers, questionId, optionKey) ==
    [id \in DOMAIN answers \cup {questionId} |->
        IF id = questionId THEN optionKey ELSE answers[id]]

quizFrame ==
    <<sessionVars, firestoreDocument, libraryDocument, activeTab, contentVars, flagVars,
      pageIndexVars, confirmVars, requestVars, outsideLearn>>

\* variant of handleAnswerChange: quizSubmitted is not looked at
handleAnswerChangeAfterSubmit(questionId, optionKey) ==
    /\ Clickable
    /\ ContentRendered("generateQuiz")
    /\ \E k \in 1..Len(currentQuizQuestions) :
           /\ currentQuizQuestions[k].id = questionId
           /\ optionKey \in currentQuizQuestions[k].options
    /\ selectedAnswers' = WithAnswer(selectedAnswers, questionId, optionKey)
    /\ UNCHANGED <<quizSubmitted, currentQuizScore, quizAttempts, quizFrame>>

\* onChange of a radio input of a question of the current quiz page. The inputs
\* are also disabled once the quiz is submitted; the handler is modelled as
\* callable so that its own test of quizSubmitted decides.
handleAnswerChange(questionId, optionKey) ==
    /\ Clickable
    /\ ContentRendered("generateQuiz")
    /\ \E k \in 1..Len(currentQuizQuestions) :
           /\ currentQuizQuestions[k].id = questionId
           /\ optionKey \in currentQuizQuestions[k].options
    /\ selectedAnswers' = IF ~quizSubmitted
                          THEN WithAnswer(selectedAnswers, questionId, optionKey)
                          ELSE selectedAnswers
    /\ UNCHANGED <<quizSubmitted, currentQuizScore, quizAttempts, quizFrame>>

OptionKeys == {"A", "B"}

\* the user answers the questions of a page from top to bottom and may change
\* a given answer: the questions whose radio inputs may be clicked next
AnswerableNow ==
    {currentQuizQuestions[k].id :
        k \in {i \in 1..Len(currentQuizQuestions) :
                  \A j \in 1..(i - 1) : currentQuizQuestions[j].id \in DOMAIN selectedAnswers}}

\* the score handleSubmitQuiz counts over currentQuizQuestions
ScoreOf(questions, answers) ==
    Cardinality({k \in 1..Len(questions) :
                    /\ questions[k].id \in DOMAIN answers
                    /\ answers[questions[k].id] = questions[k].correct_answer})

\* Submit Quiz: rendered while !quizSubmitted, disabled while !isQuizReadyToSubmit;
\* the attempt is added to the quizAttempts collection
handleSubmitQuiz ==
    /\ Clickable
    /\ ContentRendered("generateQuiz")
    /\ ~quizSubmitted
    /\ isQuizReadyToSubmit
    /\ quizAttempts < MaxAttempts
    /\ currentQuizScore' = <<ScoreOf(currentQuizQuestions, selectedAnswers)>>
    /\ quizSubmitted' = TRUE
    /\ quizAttempts' = quizAttempts + 1
    /\ UNCHANGED <<selectedAnswers, quizFrame>>

\* Retake Quiz: rendered while quizSubmitted
handleRetakeQuiz ==
    /\ Clickable
    /\ ContentRendered("generateQuiz")
    /\ quizSubmitted
    /\ selectedAnswers' = <<>>
    /\ quizSubmitted' = FALSE
    /\ currentQuizScore' = Null
    /\ UNCHANGED <<quizAttempts, quizFrame>>

-----------------------------------------------------------------------------
(* The library list of the layout *)

\* a list of n documents
DocumentList(n) == [i \in 1..n |-> i]

\* the lengths of the user's collection: empty, one full page, and MaxExtra more
LibrarySizes == {0, itemsPerPage, itemsPerPage + MaxExtra}

\* Math.ceil(allSortedDocuments.length / itemsPerPage); sorting keeps the length
totalLibraryPages == CeilDiv(Len(userDocuments), itemsPerPage)

currentItems ==
    Slice(userDocuments, currentPage * itemsPerPage - itemsPerPage, currentPage * itemsPerPage)

\* onSnapshot(q, (snapshot) => {... setUserDocuments(documents) }): the
\* collection after an upload or a deletion
documentsSnapshot(documents) ==
    /\ documents # userDocuments
    /\ userDocuments' = documents
    /\ UNCHANGED <<currentPage, uploadVars, modalVars, analysisVars, learnVars, backendVars>>

\* a page button of the library list: shown when totalPages > 1
paginate(pageNumber) ==
    /\ totalLibraryPages > 1
    /\ pageNumber \in 1..totalLibraryPages
    /\ currentPage' = pageNumber
    /\ UNCHANGED <<userDocuments, uploadVars, modalVars, analysisVars, learnVars, backendVars>>

-----------------------------------------------------------------------------
(* The API routes: analyze-document, extract-subtopics, generate-quiz and
   generate-subjective-qna. A request is a record; its step is the await at
   which its handler is suspended. *)

\* `AI analysis failed: ${geminiError.message}`: a text that is not a summary
FailureText == <<"f">>

\* a request on its arrival at the route of feature f; origin is the caller:
\* "page" for the learning page, "upload" and "menu" for the library page
NewRequest(f, origin) ==
    [route |-> f, origin |-> origin, step |-> "received", code |-> 0, body |-> Null,
     wrote |-> "none", downloadStarted |-> FALSE, modelCalled |-> FALSE,
     analysisSuccess |-> FALSE, delivered |-> FALSE]

\* return NextResponse.json({...}, {status: code})
Respond(r, code, body) == [r EXCEPT !.step = "responded", !.code = code, !.body = body]

\* update({status: "failed", analysisError: ...})
MarkFailed(document) == [document EXCEPT !.status = "failed", !.analysisError = ErrorText]

\* update({status: analysisSuccess ? "analyzed" : "failed", analysisResult: analysisText,
\*         analysisError: analysisSuccess ? FieldValue.delete() : analysisText})
SaveResult(document, analysisSuccess, analysisText) ==
    [document EXCEPT !.status = IF analysisSuccess THEN "analyzed" ELSE "failed",
                     !.analysisResult = analysisText,
                     !.analysisError = IF analysisSuccess THEN Null ELSE analysisText]

\* what a route handler leaves alone
outsideRoute ==
    <<modalVars, analysisVars, libraryVars, sessionVars, libraryDocument, activeTab,
      contentVars, flagVars, pageIndexVars, quizVars, quizAttempts, confirmVars,
      requestVars, userProfile, fileType, requestLimit>>

\* variant of POST: a profile without a key passes the tests
POSTKeyNotTested(k, saved) ==
    /\ k \in DOMAIN requests
    /\ requests[k].step = "received"
    /\ LET r == requests[k]
           next == IF r.route = "documentAnalysis" THEN "processing" ELSE "content"
           marks == r.route = "documentAnalysis" /\ saved
       IN  IF fileType = ""
           THEN /\ requests' = [requests EXCEPT ![k] = Respond(r, 400, Null)]
                /\ UNCHANGED firestoreDocument
           ELSE IF userProfile = "missing"
           THEN /\ requests' = [requests EXCEPT ![k] =
                       Respond([r EXCEPT !.wrote = IF marks THEN "failed" ELSE @], 404, Null)]
                /\ firestoreDocument' =
                       IF marks THEN MarkFailed(firestoreDocument) ELSE firestoreDocument
           ELSE /\ requests' = [requests EXCEPT ![k] = [r EXCEPT !.step = next]]
                /\ UNCHANGED firestoreDocument
    /\ UNCHANGED outsideRoute

\* POST up to the creation of the model: 400 when a field of the body is
\* missing, 404 without a user profile, 401 without a key; analyze-document
\* also marks the document as failed before 404 and 401, and goes on when
\* that update throws (saved is FALSE)
POST(k, saved) ==
    /\ k \in DOMAIN requests
    /\ requests[k].step = "received"
    /\ LET r == requests[k]
           next == IF r.route = "documentAnalysis" THEN "processing" ELSE "content"
           marks == r.route = "documentAnalysis" /\ saved
       IN  IF fileType = ""
           THEN /\ requests' = [requests EXCEPT ![k] = Respond(r, 400, Null)]
                /\ UNCHANGED firestoreDocument
           ELSE IF userProfile # "key"
           THEN /\ requests' = [requests EXCEPT ![k] =
                       Respond([r EXCEPT !.wrote = IF marks THEN "failed" ELSE @],
                               IF userProfile = "missing" THEN 404 ELSE 401, Null)]
                /\ firestoreDocument' =
                       IF marks THEN MarkFailed(firestoreDocument) ELSE firestoreDocument
           ELSE /\ requests' = [requests EXCEPT ![k] = [r EXCEPT !.step = next]]
                /\ UNCHANGED firestoreDocument
    /\ UNCHANGED outsideRoute

\* analyze-document: update({status: "processing"}) in its own try block
markProcessing(k, saved) ==
    /\ k \in DOMAIN requests
    /\ requests[k].step = "processing"
    /\ requests' = [requests EXCEPT ![k] =
           [@ EXCEPT !.step = "content", !.wrote = IF saved THEN "processing" ELSE @]]
    /\ firestoreDocument' = IF saved THEN [firestoreDocument EXCEPT !.status = "processing"]
                            ELSE firestoreDocument
    /\ UNCHANGED outsideRoute

\* the download from Storage and the text extraction. When they throw, the
\* other routes answer 500; analyze-document first marks the document as
\* failed, in the catch block or else in the catch block of the handler, and
\* saved is FALSE when both updates throw
extractContent(k, ok, saved) ==
    /\ k \in DOMAIN requests
    /\ requests[k].step = "content"
    /\ LET r == [requests[k] EXCEPT !.downloadStarted = TRUE]
           marks == r.route = "documentAnalysis" /\ saved
       IN  IF ok
           THEN /\ requests' = [requests EXCEPT ![k] = [r EXCEPT !.step = "model"]]
                /\ UNCHANGED firestoreDocument
           ELSE /\ requests' = [requests EXCEPT ![k] =
                       Respond([r EXCEPT !.wrote = IF marks THEN "failed" ELSE @], 500, Null)]
                /\ firestoreDocument' =
                       IF marks THEN MarkFailed(firestoreDocument) ELSE firestoreDocument
    /\ UNCHANGED outsideRoute

\* textModel.generateContent(...) and the reading of its result. The other
\* routes answer 200 with the result or 500; analyze-document keeps the text,
\* or the failure text, for the final update
generateContent(k, ok, raw) ==
    /\ k \in DOMAIN requests
    /\ requests[k].step = "model"
    /\ raw \in ApiResults(requests[k].route)
    /\ LET r == [requests[k] EXCEPT !.modelCalled = TRUE]
       IN  requests' = [requests EXCEPT ![k] =
               IF r.route = "documentAnalysis"
               THEN [r EXCEPT !.step = "save", !.analysisSuccess = ok,
                              !.body = IF ok THEN raw ELSE FailureText]
               ELSE IF ok THEN Respond(r, 200, raw) ELSE Respond(r, 500, Null)]
    /\ UNCHANGED <<firestoreDocument, outsideRoute>>

\* analyze-document: the final update and the response, which is 200 with
\* the text whether the model failed or not and whether the update threw or not
saveAnalysis(k, saved) ==
    /\ k \in DOMAIN requests
    /\ requests[k].step = "save"
    /\ LET r == requests[k]
           status == IF r.analysisSuccess THEN "analyzed" ELSE "failed"
       IN  /\ requests' = [requests EXCEPT ![k] =
                  Respond([r EXCEPT !.wrote = IF saved THEN status ELSE @], 200, r.body)]
           /\ firestoreDocument' =
                  IF saved THEN SaveResult(firestoreDocument, r.analysisSuccess, r.body)
                  ELSE firestoreDocument
    /\ UNCHANGED outsideRoute

\* the positions of the requests of an origin at the route of f
RequestsOf(origin, f) ==
    {k \in DOMAIN requests : requests[k].origin = origin /\ requests[k].route = f}

\* the request sent by the fetch function of f reaches its route
requestArrives(f) ==
    /\ awaitingResponse[f] > 0
    /\ RequestsOf("page", f) = {}
    /\ requests' = Append(requests, NewRequest(f, "page"))
    /\ UNCHANGED <<firestoreDocument, outsideRoute>>

\* `await fetch(...)` of the fetch function of f returns the response of the
\* route: `if (!response.ok) {...}` or the lines after it
responseArrives(f) ==
    \E k \in RequestsOf("page", f) :
        /\ requests[k].step = "responded"
        /\ IF requests[k].code = 200
           THEN FetchSucceeds(f, requests[k].body)
           ELSE FetchFails(f)

-----------------------------------------------------------------------------
(* The library page: Upload & Analyze, and Analyze Document and Retry Analysis
   of the menu of a document. One document is followed: the one of the selected
   file, or one that is in the collection from the start. *)

outsideLibrary ==
    <<modalVars, analysisVars, sessionVars, libraryDocument, activeTab, contentVars,
      flagVars, pageIndexVars, quizVars, quizAttempts, confirmVars, requestVars,
      userProfile, fileType, requestLimit>>

\* setUserDocuments((prevDocs) => prevDocs.map((d) =>
\*     d.id === document.id ? {...d, status} : d))
WithStatus(listed, status) == IF listed = "none" THEN "none" ELSE status

\* the requests of the library page whose response has not been handled
Undelivered == {k \in DOMAIN requests : requests[k].origin # "page" /\ ~requests[k].delivered}

\* the file input and the drop area, for the file of the followed document
handleFileSelect ==
    /\ firestoreDocument = NullDocument
    /\ uploadStep = "none"
    /\ ~selectedFile
    /\ selectedFile' = TRUE
    /\ processState' = "fileSelected"
    /\ UNCHANGED <<userDocuments, currentPage, uploadStep, listedStatus,
                   isDocumentDescriptionModalOpen, firestoreDocument, requests,
                   outsideLibrary>>

\* the Upload & Analyze button, disabled without a file and while processState
\* is "uploading" or "analyzing": up to the await of the upload
handleUploadAndAnalyzeClick ==
    /\ selectedFile
    /\ processState \notin {"uploading", "analyzing"}
    /\ ~isDocumentDescriptionModalOpen
    /\ uploadStep = "none"
    /\ processState' = "uploading"
    /\ uploadStep' = "upload"
    /\ UNCHANGED <<userDocuments, currentPage, selectedFile, listedStatus,
                   isDocumentDescriptionModalOpen, firestoreDocument, requests,
                   outsideLibrary>>

\* the error observer of the upload task, the catch block and the finally block
uploadFails ==
    /\ uploadStep = "upload"
    /\ processState' = "failed"
    /\ selectedFile' = FALSE
    /\ uploadStep' = "none"
    /\ UNCHANGED <<userDocuments, currentPage, listedStatus,
                   isDocumentDescriptionModalOpen, firestoreDocument, requests,
                   outsideLibrary>>

\* the completion observer of the upload task, up to `await getDownloadURL(...)`
uploadCompletes ==
    /\ uploadStep = "upload"
    /\ uploadStep' = "url"
    /\ UNCHANGED <<userDocuments, currentPage, selectedFile, processState, listedStatus,
                   isDocumentDescriptionModalOpen, firestoreDocument, requests,
                   outsideLibrary>>

\* getDownloadURL rejects: the await is outside the try block of the observer,
\* so the promise awaited by the handler is neither resolved nor rejected
getDownloadURLFails ==
    /\ uploadStep = "url"
    /\ uploadStep' = "abandoned"
    /\ UNCHANGED <<userDocuments, currentPage, selectedFile, processState, listedStatus,
                   isDocumentDescriptionModalOpen, firestoreDocument, requests,
                   outsideLibrary>>

\* getDownloadURL resolves and addDoc writes the document, status "uploaded"
addDoc ==
    /\ uploadStep = "url"
    /\ uploadStep' = "save"
    /\ firestoreDocument' = EmptyDocument("uploaded")
    /\ UNCHANGED <<userDocuments, currentPage, selectedFile, processState, listedStatus,
                   isDocumentDescriptionModalOpen, requests, outsideLibrary>>

\* getDownloadURL resolves and addDoc rejects: the catch blocks and the finally block
addDocFails ==
    /\ uploadStep = "url"
    /\ processState' = "failed"
    /\ selectedFile' = FALSE
    /\ uploadStep' = "none"
    /\ UNCHANGED <<userDocuments, currentPage, listedStatus,
                   isDocumentDescriptionModalOpen, firestoreDocument, requests,
                   outsideLibrary>>

\* handleAnalyzeDocument(document) up to `await fetch(...)`, for a document
\* whose status is not "processing": the optimistic update and the request
StartAnalysis(origin) ==
    /\ listedStatus' = WithStatus(listedStatus, "processing")
    /\ requests' = Append(requests, NewRequest("documentAnalysis", origin))

\* `await addDoc(...)` returns: setProcessState("analyzing") and
\* handleAnalyzeDocument({id: docRef.id, ...docMetadata}), whose status is "uploaded"
addDocResolves ==
    /\ uploadStep = "save"
    /\ processState' = "analyzing"
    /\ StartAnalysis("upload")
    /\ uploadStep' = "analyze"
    /\ UNCHANGED <<userDocuments, currentPage, selectedFile,
                   isDocumentDescriptionModalOpen, firestoreDocument, outsideLibrary>>

\* Analyze Document, shown for status "uploaded", and Retry Analysis, shown for
\* status "failed", in the menu of the document: onAnalyze(doc)
clickAnalyze ==
    /\ listedStatus \in {"uploaded", "failed"}
    /\ ~isDocumentDescriptionModalOpen
    /\ Len(requests) < MaxAnalyses
    /\ StartAnalysis("menu")
    /\ UNCHANGED <<userDocuments, currentPage, selectedFile, processState, uploadStep,
                   isDocumentDescriptionModalOpen, firestoreDocument, outsideLibrary>>

\* onSnapshot(q, (snapshot) => {... setUserDocuments(documents) }) of the
\* collection that holds the followed document; a snapshot is delivered when
\* any document of the collection changes
statusSnapshot ==
    /\ firestoreDocument # NullDocument
    /\ listedStatus # firestoreDocument.status
    /\ listedStatus' = firestoreDocument.status
    /\ userDocuments' = DocumentList(1)
    /\ UNCHANGED <<currentPage, selectedFile, processState, uploadStep,
                   isDocumentDescriptionModalOpen, firestoreDocument, requests,
                   outsideLibrary>>

\* the rest of handleUploadAndAnalyzeClick once handleAnalyzeDocument has
\* returned: setProcessState("complete"), resolve() and the finally block
AfterAnalysis(origin) ==
    IF origin = "upload"
    THEN /\ processState' = "complete"
         /\ selectedFile' = FALSE
         /\ uploadStep' = "none"
    ELSE UNCHANGED <<processState, selectedFile, uploadStep>>

\* `await fetch(...)` of handleAnalyzeDocument returns the response of the
\* route: the alert and the status "failed" when it is not ok, the document
\* description modal when it is; the function returns in both cases
analysisResponse(k) ==
    /\ k \in Undelivered
    /\ requests[k].step = "responded"
    /\ requests' = [requests EXCEPT ![k] = [@ EXCEPT !.delivered = TRUE]]
    /\ IF requests[k].code = 200
       THEN /\ isDocumentDescriptionModalOpen' = TRUE
            /\ UNCHANGED listedStatus
       ELSE /\ listedStatus' = WithStatus(listedStatus, "failed")
            /\ UNCHANGED isDocumentDescriptionModalOpen
    /\ AfterAnalysis(requests[k].origin)
    /\ UNCHANGED <<userDocuments, currentPage, firestoreDocument, outsideLibrary>>

\* onClose of the document description modal
closeDocumentDescription ==
    /\ isDocumentDescriptionModalOpen
    /\ isDocumentDescriptionModalOpen' = FALSE
    /\ UNCHANGED <<userDocuments, currentPage, selectedFile, processState, uploadStep,
                   listedStatus, firestoreDocument, requests, outsideLibrary>>

-----------------------------------------------------------------------------
(* Specifications of the learning page *)

\* the page with its four features and the confirmation modal
InitLearn ==
    /\ LearningPageMounted
    /\ geminiApiKey \in BOOLEAN
    /\ firestoreDocument \in LearnDocuments
    /\ LibraryIdle
    /\ BackendIdle
    /\ ModalIdle
    /\ AnalysisIdle

NextLearn ==
    \/ docSnapshot
    \/ loadContent
    \/ \E tab \in Tabs : setActiveTab(tab)
    \/ \E f \in Features : ClickFeatureButton(f)
    \/ confirmAction
    \/ cancelConfirmation
    \/ \E f \in Features : \E raw \in ApiResults(f) : FetchSucceeds(f, raw)
    \/ \E f \in Features : FetchFails(f)
    \/ \E f \in Features : FetchSettles(f)

SpecLearn == InitLearn /\ [][NextLearn]_vars

\* the same page with the page buttons of its lists, and the library list
InitPages == InitLearn

NextPages ==
    \/ NextLearn
    \/ \E pageNumber \in PageNumbers(itemsPerPageSubtopics) : paginateSubtopics(pageNumber)
    \/ \E pageNumber \in PageNumbers(itemsPerPageQuiz) : paginateQuiz(pageNumber)
    \/ \E pageNumber \in PageNumbers(itemsPerPageQnA) : paginateQnA(pageNumber)
    \/ \E n \in LibrarySizes : documentsSnapshot(DocumentList(n))
    \/ \E pageNumber \in PageNumbers(itemsPerPage) : paginate(pageNumber)

SpecPages == InitPages /\ [][NextPages]_vars

\* the quiz tab: answering, submitting, retaking and regenerating the quiz
InitQuiz ==
    /\ LearningPageMounted
    /\ geminiApiKey = TRUE
    /\ firestoreDocument \in QuizDocuments
    /\ LibraryIdle
    /\ BackendIdle
    /\ ModalIdle
    /\ AnalysisIdle

NextQuiz ==
    \/ docSnapshot
    \/ loadContent
    \/ \E tab \in {"documentAnalysis", "generateQuiz"} : setActiveTab(tab)
    \/ ClickFeatureButton("generateQuiz")
    \/ confirmAction
    \/ cancelConfirmation
    \/ \E raw \in ApiResults("generateQuiz") : FetchSucceeds("generateQuiz", raw)
    \/ FetchFails("generateQuiz")
    \/ FetchSettles("generateQuiz")
    \/ \E pageNumber \in PageNumbers(itemsPerPageQuiz) : paginateQuiz(pageNumber)
    \/ \E questionId \in AnswerableNow : \E optionKey \in OptionKeys :
           handleAnswerChange(questionId, optionKey)
    \/ handleSubmitQuiz
    \/ handleRetakeQuiz

SpecQuiz == InitQuiz /\ [][NextQuiz]_vars

\* the page with room for a second request: the summary and the subtopics, with
\* the sidebar buttons and the confirmation modal
RegenerateFeatures == {"documentAnalysis", "extractedSubtopics"}

InitRegenerate ==
    /\ LearningPageMounted
    /\ geminiApiKey = TRUE
    /\ firestoreDocument \in LearnDocuments
    /\ LibraryIdle
    /\ userProfile = "key"
    /\ fileType = "text/plain"
    /\ requests = <<>>
    /\ requestLimit = MaxRequests + 1
    /\ ModalIdle
    /\ AnalysisIdle

NextRegenerate ==
    \/ docSnapshot
    \/ loadContent
    \/ \E tab \in RegenerateFeatures : setActiveTab(tab)
    \/ \E f \in RegenerateFeatures : ClickFeatureButton(f)
    \/ confirmAction
    \/ cancelConfirmation
    \/ \E f \in RegenerateFeatures : \E raw \in ApiResults(f) : FetchSucceeds(f, raw)
    \/ \E f \in RegenerateFeatures : FetchFails(f)
    \/ \E f \in RegenerateFeatures : FetchSettles(f)

SpecRegenerate == InitRegenerate /\ [][NextRegenerate]_vars

\* the page without the sidebar buttons: every request is started by the
\* loadContent effect, and the only clicks select a tab
NextAutoLoad ==
    \/ docSnapshot
    \/ loadContent
    \/ \E tab \in Tabs : setActiveTab(tab)
    \/ \E f \in Features : \E raw \in ApiResults(f) : FetchSucceeds(f, raw)
    \/ \E f \in Features : FetchFails(f)
    \/ \E f \in Features : FetchSettles(f)

SpecAutoLoad == InitRegenerate /\ [][NextAutoLoad]_vars

\* the learning page and the four routes; the page sends one request, and the
\* profile read by the routes may differ from the one the page loaded at sign-in
InitAnalyze ==
    /\ LearningPageMounted
    /\ geminiApiKey \in BOOLEAN
    /\ firestoreDocument \in LearnDocuments
    /\ LibraryIdle
    /\ userProfile \in {"missing", "noKey", "key"}
    /\ fileType \in {"", "text/plain"}
    /\ requests = <<>>
    /\ requestLimit = 1
    /\ ModalIdle
    /\ AnalysisIdle

NextRoutes ==
    \/ \E k \in DOMAIN requests : \E saved \in BOOLEAN : POST(k, saved)
    \/ \E k \in DOMAIN requests : \E saved \in BOOLEAN : markProcessing(k, saved)
    \/ \E k \in DOMAIN requests : \E ok, saved \in BOOLEAN : extractContent(k, ok, saved)
    \/ \E k \in DOMAIN requests : \E ok \in BOOLEAN :
           \E raw \in ApiResults(requests[k].route) : generateContent(k, ok, raw)
    \/ \E k \in DOMAIN requests : \E saved \in BOOLEAN : saveAnalysis(k, saved)

NextAnalyze ==
    \/ docSnapshot
    \/ loadContent
    \/ \E tab \in Tabs : setActiveTab(tab)
    \/ \E f \in Features : ClickFeatureButton(f)
    \/ confirmAction
    \/ cancelConfirmation
    \/ \E f \in Features : requestArrives(f)
    \/ NextRoutes
    \/ \E f \in Features : responseArrives(f)
    \/ \E f \in Features : FetchSettles(f)

SpecAnalyze == InitAnalyze /\ [][NextAnalyze]_vars

\* the library page and the analyze-document route
InitLibrary ==
    /\ LearningPageMounted
    /\ geminiApiKey = FALSE
    /\ firestoreDocument \in {NullDocument, EmptyDocument("uploaded"), EmptyDocument("failed")}
    /\ LibraryIdle
    /\ userProfile \in {"missing", "noKey", "key"}
    /\ fileType \in {"", "text/plain"}
    /\ requests = <<>>
    /\ requestLimit = MaxRequests
    /\ ModalIdle
    /\ AnalysisIdle

NextLibrary ==
    \/ handleFileSelect
    \/ handleUploadAndAnalyzeClick
    \/ uploadFails
    \/ uploadCompletes
    \/ getDownloadURLFails
    \/ addDoc
    \/ addDocFails
    \/ addDocResolves
    \/ clickAnalyze
    \/ statusSnapshot
    \/ NextRoutes
    \/ \E k \in DOMAIN requests : analysisResponse(k)
    \/ closeDocumentDescription

SpecLibrary == InitLibrary /\ [][NextLibrary]_vars

-----------------------------------------------------------------------------
(* Properties of the learning page and the library list *)

\* C15: in the subtopic list, the quiz, the subjective questions and the
\* library list the current page stays within 1..total pages whenever there
\* is a page, whatever page buttons are clicked and however the content
\* changes.
C15_PageIndexesInRange ==
    /\ totalSubtopicPages >= 1 => currentPageSubtopics \in 1..totalSubtopicPages
    /\ totalQuizPages >= 1 => currentPageQuiz \in 1..totalQuizPages
    /\ totalQnAPages >= 1 => currentPageQnA \in 1..totalQnAPages
    /\ totalLibraryPages >= 1 => currentPage \in 1..totalLibraryPages

\* every question of the current quiz page has a selected answer
CurrentPageAnswered ==
    \A k \in 1..Len(currentQuizQuestions) :
        currentQuizQuestions[k].id \in DOMAIN selectedAnswers

\* C17: while the Submit Quiz button is shown it is enabled exactly when the
\* quiz is non-empty and every question of the current quiz page is answered.
C17_SubmitEnabledIffPageAnswered ==
    (ContentRendered("generateQuiz") /\ ~quizSubmitted) =>
        (isQuizReadyToSubmit <=> (Len(quizQuestions) > 0 /\ CurrentPageAnswered))

\* C18: once the quiz is submitted a step either leaves selectedAnswers as
\* they are and the quiz submitted, or it resets selectedAnswers to empty,
\* quizSubmitted to false and the score to null (Retake Quiz, regeneration);
\* handleAnswerChange changes nothing.
C18_AnswersFrozenOnceSubmitted ==
    [][quizSubmitted =>
          \/ selectedAnswers' = selectedAnswers /\ quizSubmitted'
          \/ selectedAnswers' = <<>> /\ ~quizSubmitted' /\ currentQuizScore' = Null]_vars

\* the quiz is submitted and a radio input of the current page can be clicked
C18_Witness ==
    /\ quizSubmitted
    /\ selectedAnswers # <<>>
    /\ Clickable
    /\ ContentRendered("generateQuiz")
    /\ AnswerableNow # {}

\* the score is set exactly while the quiz is submitted and lies between 0 and
\* the denominator shown, currentQuizQuestions.length
ScoreShownInRange ==
    /\ (currentQuizScore # Null) <=> quizSubmitted
    /\ quizSubmitted => currentQuizScore[1] \in 0..Len(currentQuizQuestions)

\* C19: currentQuizScore is non-null exactly when quizSubmitted; while
\* submitted 0 <= score <= number of questions of the current quiz page; at
\* submission the score is the number of questions of the submitted page whose
\* selected answer is the correct answer.
C19_ScoreWithinDenominator ==
    /\ []ScoreShownInRange
    /\ [][(~quizSubmitted /\ quizSubmitted') =>
             currentQuizScore' = <<ScoreOf(currentQuizQuestions, selectedAnswers)>>]_vars

\* a step that sends a request for feature f
RequestSentFor(f) == awaitingResponse'[f] > awaitingResponse[f]

\* a step that closes the confirmation modal with Confirm, f being pending
ConfirmStepFor(f) ==
    /\ isConfirmationModalOpen /\ ~isConfirmationModalOpen'
    /\ onConfirmAction = f /\ onConfirmAction' = f

\* a step that closes the confirmation modal with Cancel
CancelStep ==
    /\ isConfirmationModalOpen /\ ~isConfirmationModalOpen'
    /\ onConfirmAction' = "null"

\* C20: a request for a feature is sent in the step that confirms the feature
\* in the confirmation modal, or else for a feature that has no content, shown
\* or stored; the confirming step clears the content and sends the request;
\* Cancel closes the modal, discards the pending action, sends no request and
\* leaves contents, loading flags and errors unchanged.
C20_RegenerationOnlyAfterConfirm ==
    /\ [][\A f \in Features :
             RequestSentFor(f) =>
                 \/ ConfirmStepFor(f)
                 \/ ContentEmpty(f) /\ StoredField(firestoreDocument, f) = Null]_vars
    /\ [][\A f \in Features :
             (ConfirmStepFor(f) /\ geminiApiKey) =>
                 /\ RequestSentFor(f)
                 /\ isLoading'[f] /\ ~featureError'[f]
                 /\ ContentOf(f)' = <<>>]_vars
    /\ [][CancelStep => UNCHANGED <<contentVars, flagVars, requestVars,
                                     firestoreDocument, route>>]_vars

\* a confirmed regeneration of a feature with stored content is under way
C20_Witness ==
    \E f \in Features :
        /\ ~isConfirmationModalOpen
        /\ onConfirmAction = f
        /\ awaitingResponse[f] > 0
        /\ isLoading[f]
        /\ ContentEmpty(f)
        /\ StoredField(firestoreDocument, f) # Null

-----------------------------------------------------------------------------
(* Properties of the requests of the learning page *)

\* the calls of the fetch function of f that have not returned yet
InFlight(f) == awaitingResponse[f] + awaitingUpdate[f]

\* C21: for each feature at most one generation request is in flight at any
\* time, and no request for a feature is sent while the loading flag of that
\* feature is true.
C21_OneRequestInFlight ==
    /\ [](\A f \in Features : InFlight(f) <= 1)
    /\ [][\A f \in Features : RequestSentFor(f) => ~isLoading[f]]_vars

\* a step in which a call of the fetch function of f returns
RequestCompletes(f) == awaitingUpdate'[f] < awaitingUpdate[f]

\* C27: when a request that the loadContent effect started for a feature has
\* completed, with a failure or with any result, the effect has no request left
\* to send for that feature.
C27_AutoLoadTerminates ==
    [][\A f \in Features :
          RequestCompletes(f) => ~(activeTab' = f /\ LoadContentFetches')]_vars

-----------------------------------------------------------------------------
(* Properties of the analysis of a document *)

\* a step in which a request is sent to /api/analyze-document by the library page
AnalysisRequestSent == Len(requests') > Len(requests)

\* C22: the library page sends no request to /api/analyze-document for a
\* document while the route is still handling an earlier request for it.
C22_OneAnalysisPerDocument ==
    [][AnalysisRequestSent =>
          \A k \in DOMAIN requests : requests[k].step = "responded"]_vars

\* the request of the Upload & Analyze flow was answered with an analysis
UploadAnalysisSucceeded ==
    \E k \in RequestsOf("upload", "documentAnalysis") :
        /\ requests[k].delivered
        /\ requests[k].code = 200
        /\ requests[k].analysisSuccess

\* C23: processState is "complete" only when the upload, the metadata save and
\* the analysis have succeeded, and the flow is never abandoned while
\* processState is "uploading" or "analyzing".
C23_CompleteOnlyOnSuccess ==
    /\ processState = "complete" => UploadAnalysisSucceeded
    /\ processState \in {"uploading", "analyzing"} => uploadStep # "abandoned"

\* the requests of the learning page for an analysis on which the model was
\* called and whose response the page has handled
AnalysisAttempts ==
    {k \in RequestsOf("page", "documentAnalysis") :
        /\ requests[k].modelCalled
        /\ requests[k].step = "responded"
        /\ InFlight("documentAnalysis") = 0}

\* C24: after an analysis attempt the stored status is "analyzed" only if the
\* call of the model succeeded, with the summary as analysisResult and no
\* analysisError; when the call failed the status is "failed", analysisError is
\* set and the page shows the error.
C24_StatusReflectsAnalysis ==
    \A k \in AnalysisAttempts :
        /\ firestoreDocument.status = "analyzed" =>
               /\ requests[k].analysisSuccess
               /\ firestoreDocument.analysisResult = requests[k].body
               /\ firestoreDocument.analysisError = Null
        /\ ~requests[k].analysisSuccess =>
               /\ firestoreDocument.status = "failed"
               /\ firestoreDocument.analysisError # Null
               /\ featureError["documentAnalysis"]

\* C25: a request on which analyze-document has set the status "processing"
\* has set it to "analyzed" or "failed" when the handler returns.
C25_ProcessingIsSettled ==
    \A k \in DOMAIN requests :
        requests[k].step = "responded" => requests[k].wrote # "processing"

\* the handler of a request is past the three tests of POST
PastTests(r) ==
    \/ r.step \in {"processing", "content", "model", "save"}
    \/ r.downloadStarted
    \/ r.modelCalled

\* C26: the fetch functions send no request when the page holds no API key;
\* a route downloads the document and calls the model only for a complete
\* request of a user whose profile holds a key, and answers 400 for an
\* incomplete request, else 404 without a profile, else 401 without a key.
C26_NoModelCallWithoutKey ==
    /\ [](\A k \in DOMAIN requests :
             LET r == requests[k]
             IN  /\ PastTests(r) => fileType # "" /\ userProfile = "key"
                 /\ r.code \in {400, 401, 404} => ~r.downloadStarted /\ ~r.modelCalled
                 /\ r.step = "responded" =>
                        /\ fileType = "" => r.code = 400
                        /\ fileType # "" /\ userProfile = "missing" => r.code = 404
                        /\ fileType # "" /\ userProfile = "noKey" => r.code = 401)
    /\ [][\A f \in Features : RequestSentFor(f) => geminiApiKey]_vars
    /\ [][\A f \in Features :
             (~geminiApiKey /\ route' = "settings") => UNCHANGED requestVars]_vars

\* a route has answered 401 to a complete request of a user without a key
C26_Witness ==
    \E k \in DOMAIN requests :
        /\ requests[k].code = 401
        /\ fileType # ""
        /\ userProfile = "noKey"

=============================================================================
